---------------------------- MODULE Spec2Model ----------------------------
(***************************************************************************)
(* Territory control engine of streamlit_app.py: nearest-site partition,   *)
(* county adjacency, the propose / resolve battle cycle kept in            *)
(* st.session_state, the replay loop and the autosave file.                *)
(*                                                                         *)
(* One action is one Streamlit script run that handles one widget event    *)
(* up to its st.rerun().  The rendering calls (plotly, markdown, sleep)    *)
(* and last_header_content carry no engine state and are left out.         *)
(***************************************************************************)
EXTENDS Integers, Sequences, FiniteSets, TLC

VARIABLES
    game_active,        \* st.session_state.game_active
    teams,              \* st.session_state.teams: list of team dicts
    county_assignments, \* st.session_state.county_assignments: fips -> owner name
    adjacencies,        \* st.session_state.adjacencies: fips -> list of fips
    battle_log,         \* st.session_state.battle_log: list of battle dicts
    is_replaying,       \* st.session_state.is_replaying
    trigger_replay,     \* st.session_state.trigger_replay
    autosave,           \* contents of AUTOSAVE_FILE, or NoFile
    kd_tie,             \* which of several equidistant sites KDTree.query returns
    op                  \* the handler that ran last and what it did (observation only)

vars == <<game_active, teams, county_assignments, adjacencies, battle_log,
          is_replaying, trigger_replay, autosave, kd_tie, op>>

-----------------------------------------------------------------------------
(* Values *)

\* Python's None, as the 'winner' of a pending battle
None == "<None>"

\* os.path.exists(AUTOSAVE_FILE) is false; an existing file is << its content >>
NoFile == << >>

\* Longest uploaded "history" list that is enumerated
MaxHist == 2

\* str.zfill(width) is applied to FIPS codes with these widths
StateWidth == 2
CountyWidth == 3
FipsWidth == 5

Range(s) == {s[i] : i \in DOMAIN s}

\* the dict {} (also the list [] : both have an empty domain)
EmptyDict == [f \in {} |-> None]

RECURSIVE zfill(_, _)
zfill(s, width) == IF Len(s) >= width THEN s ELSE zfill("0" \o s, width)

\* truthiness of b.get('winner') for a string or None
Truthy(v) == v # None /\ v # ""

-----------------------------------------------------------------------------
(* External data sets: the census centre-of-population table and the       *)
(* county adjacency file.  Four counties on a line and one island.         *)

CenPopRows ==
    << [STATEFP |-> "0", COUNTYFP |-> "1", lat |-> 0, lon |-> 0],
       [STATEFP |-> "0", COUNTYFP |-> "2", lat |-> 2, lon |-> 0],
       [STATEFP |-> "0", COUNTYFP |-> "3", lat |-> 4, lon |-> 0],
       [STATEFP |-> "0", COUNTYFP |-> "4", lat |-> 6, lon |-> 0],
       [STATEFP |-> "0", COUNTYFP |-> "5", lat |-> 0, lon |-> 10] >>

\* df['fips'] = STATEFP.zfill(2) + COUNTYFP.zfill(3); the kept columns
counties_df ==
    [i \in DOMAIN CenPopRows |->
        [fips |-> zfill(CenPopRows[i].STATEFP, StateWidth)
                    \o zfill(CenPopRows[i].COUNTYFP, CountyWidth),
         lat |-> CenPopRows[i].lat,
         lon |-> CenPopRows[i].lon]]

Fips == {counties_df[i].fips : i \in DOMAIN counties_df}

\* A line of the adjacency file: parts[1] (blank on continuation lines) and parts[3]
Line(county, neighbor) == [county |-> county, neighbor |-> neighbor]

\* Every county lists itself and both its neighbours, as the census file does
SymmetricFile ==
    << Line("00001", "00001"), Line("", "00002"),
       Line("00002", "00001"), Line("", "00002"), Line("", "00003"),
       Line("00003", "00002"), Line("", "00003"), Line("", "00004"),
       Line("00004", "00003"), Line("", "00004"),
       Line("00005", "00005") >>

\* One direction of some pairs is missing; codes are not zero padded; one
\* neighbour is a county that the centre-of-population table does not have
AsymmetricFile ==
    << Line("1", "1"), Line("", "2"),
       Line("2", "2"), Line("", "3"),
       Line("3", "3"), Line("", "4"), Line("", "9"),
       Line("4", "3"), Line("", "4"),
       Line("5", "5") >>

AdjacencyFiles == {SymmetricFile, AsymmetricFile}

-----------------------------------------------------------------------------
(* load_map_resources: the adjacency part *)

\* one iteration of 'for line in response' on the pair (adj_dict, current_county)
AdjLine(acc, line) ==
    LET cur == IF line.county # "" THEN zfill(line.county, FipsWidth) ELSE acc.current_county
        d1  == IF line.county # "" /\ cur \notin DOMAIN acc.adj_dict
                 THEN [k \in DOMAIN acc.adj_dict \cup {cur} |->
                         IF k = cur THEN << >> ELSE acc.adj_dict[k]]
                 ELSE acc.adj_dict
        nb  == zfill(line.neighbor, FipsWidth)
        d2  == IF cur # None /\ nb # cur
                 THEN [d1 EXCEPT ![cur] = Append(@, nb)]
                 ELSE d1
    IN  [adj_dict |-> d2, current_county |-> cur]

RECURSIVE AdjLoop(_, _)
AdjLoop(acc, lines) ==
    IF lines = << >> THEN acc ELSE AdjLoop(AdjLine(acc, Head(lines)), Tail(lines))

load_map_resources(lines) ==
    AdjLoop([adj_dict |-> EmptyDict, current_county |-> None], lines).adj_dict

-----------------------------------------------------------------------------
(* assign_initial_territories *)

Dist2(t, c) == (t.lat - c.lat) * (t.lat - c.lat) + (t.lon - c.lon) * (t.lon - c.lon)

SetMin(S) == CHOOSE m \in S : \A x \in S : m <= x
SetMax(S) == CHOOSE m \in S : \A x \in S : m >= x

\* tree.query(point): index of a site at minimal distance.  Which one of
\* several sites at exactly the same distance is returned is not specified by
\* the library; tie names the answer of the build at hand.
KDQuery(tms, c, tie) ==
    LET nearest == {i \in DOMAIN tms : \A j \in DOMAIN tms : Dist2(tms[i], c) <= Dist2(tms[j], c)}
    IN  IF tie = "low" THEN SetMin(nearest) ELSE SetMax(nearest)

assign_initial_territories(tms, tie) ==
    IF tms = << >> THEN EmptyDict
    ELSE [f \in Fips |->
            LET i == CHOOSE k \in DOMAIN counties_df : counties_df[k].fips = f
            IN  tms[KDQuery(tms, counties_df[i], tie)].name]

-----------------------------------------------------------------------------
(* Inputs: team lists (nfl_teams.csv rows, "teams" of a save file) and     *)
(* uploaded histories                                                      *)

Names == {"A", "B", "C"}

Team(name, lat, lon, active) == [name |-> name, lat |-> lat, lon |-> lon, active |-> active]

\* no team at all
NoTeams == << >>
\* a single team
OneTeam == << Team("A", 0, 0, TRUE) >>
\* two teams that split the line between them
TwoTeams == << Team("A", 0, 0, TRUE), Team("B", 6, 0, TRUE) >>
\* three teams along the line; county 00002 is equally far from A and B
ThreeTeams == << Team("A", 0, 0, TRUE), Team("B", 4, 0, TRUE), Team("C", 7, 0, TRUE) >>
\* A and B share one stadium; C sits on the island
SharedSite == << Team("A", 0, 0, TRUE), Team("B", 0, 0, TRUE), Team("C", 0, 10, TRUE) >>
\* "teams" as saved after A has beaten B
TwoTeamsBOut == << Team("A", 0, 0, TRUE), Team("B", 6, 0, FALSE) >>

CsvRosters == {NoTeams, OneTeam, TwoTeams, ThreeTeams, SharedSite}

SavedRosters == CsvRosters \cup {TwoTeamsBOut}

\* a battle dict {"att": .., "def": .., "winner": ..}
Battle(att, dfn, winner) == [att |-> att, def |-> dfn, winner |-> winner]

\* The battles that an uploaded "history" is made of: resolved for the
\* attacker, resolved for the defender, between other teams (C is not in
\* every roster), pending, won by a third team, and a team against itself.
\* The upload branch takes the list as it comes, in any order.
SavedBattles ==
    { Battle("A", "B", "A"), Battle("A", "B", "B"), Battle("B", "C", "B"),
      Battle("A", "B", None), Battle("A", "B", "C"), Battle("A", "A", None) }

Histories == UNION {[1..n -> SavedBattles] : n \in 0..MaxHist}

-----------------------------------------------------------------------------
(* Helper functions of the script *)

\* get_neighbors without the test neighbor_owner != team_name
get_neighbors_WithSelf(team_name, ca, adj) ==
    LET team_counties == {f \in DOMAIN ca : ca[f] = team_name}
    IN  {ca[a] : a \in {x \in UNION {Range(adj[f]) : f \in team_counties \cap DOMAIN adj} :
                            /\ x \in DOMAIN ca
                            /\ Truthy(ca[x])}}

\* get_neighbors(team_name), on the given assignment and adjacency dicts
get_neighbors(team_name, ca, adj) ==
    LET team_counties == {f \in DOMAIN ca : ca[f] = team_name}
    IN  {ca[a] : a \in {x \in UNION {Range(adj[f]) : f \in team_counties \cap DOMAIN adj} :
                            /\ x \in DOMAIN ca
                            /\ Truthy(ca[x])
                            /\ ca[x] # team_name}}

\* save_game_state(): what is written to AUTOSAVE_FILE
save_game_state(tms, ca, log, active) ==
    [teams |-> tms, county_assignments |-> ca, battle_log |-> log, game_active |-> active]

\* has_active_battle that looks at the first battle of the log
has_active_battle_First(log) == log # << >> /\ log[1].winner = None

\* lines 257-259: active_battle is not None
has_active_battle(log) == log # << >> /\ log[Len(log)].winner = None

\* lines 257-259: the last battle of the log, when has_active_battle
active_battle(log) == log[Len(log)]

\* line 338
active_teams(tms) == SelectSeq(tms, LAMBDA t : t.active)

\* line 423
viable_attackers(tms, ca, adj) ==
    SelectSeq(active_teams(tms), LAMBDA t : get_neighbors(t.name, ca, adj) # {})

\* completed_battles that keeps the pending battles too
completed_battles_All(log) == log

\* line 366
completed_battles(log) == SelectSeq(log, LAMBDA b : Truthy(b.winner))

\* ReplayBattle with the defender losing whoever wins
ReplayBattle_DefenderLoses(cur_map, battle) ==
    [f \in DOMAIN cur_map |->
        IF cur_map[f] = battle.def THEN battle.winner ELSE cur_map[f]]

\* lines 368-369 and 385: one pass of the replay loop over cur_map
ReplayBattle(cur_map, battle) ==
    LET att == battle.att
        dfn == battle.def
        win == battle.winner
        loser == IF win = att THEN dfn ELSE att
    IN  [f \in DOMAIN cur_map |-> IF cur_map[f] = loser THEN win ELSE cur_map[f]]

RECURSIVE ReplayLoop(_, _)
ReplayLoop(cur_map, battles) ==
    IF battles = << >> THEN cur_map
    ELSE ReplayLoop(ReplayBattle(cur_map, Head(battles)), Tail(battles))

\* lines 359-399: the map that the replay branch stores
ReplayAll(tms, log, tie) ==
    ReplayLoop(assign_initial_territories(tms, tie), completed_battles(log))

RECURSIVE ReplaySnaps(_, _)
ReplaySnaps(cur_map, battles) ==
    IF battles = << >> THEN << cur_map >>
    ELSE << cur_map >> \o ReplaySnaps(ReplayBattle(cur_map, Head(battles)), Tail(battles))

\* lines 359-385: the values cur_map takes during a replay, the initial
\* territories first and then one map per completed battle
ReplaySnapshots(tms, log, tie) ==
    ReplaySnaps(assign_initial_territories(tms, tie), completed_battles(log))

\* ConfirmMap with the loser taken to be the defender whoever wins
ConfirmMap_LoserIsDefender(ca, ab, winner) ==
    LET loser == ab.def
    IN  [f \in DOMAIN ca |-> IF ca[f] = loser THEN winner ELSE ca[f]]

\* ConfirmMap with every county going to the winner
ConfirmMap_WinnerTakesAll(ca, ab, winner) == [f \in DOMAIN ca |-> winner]

\* lines 412-414: the map after the pending battle ab is confirmed for winner
ConfirmMap(ca, ab, winner) ==
    LET loser == IF winner = ab.att THEN ab.def ELSE ab.att
    IN  [f \in DOMAIN ca |-> IF ca[f] = loser THEN winner ELSE ca[f]]

\* ConfirmTeams that leaves the flags as they were
ConfirmTeams_FlagsKept(tms, ca) == tms

\* lines 415-416
ConfirmTeams(tms, ca) ==
    [i \in DOMAIN tms |-> [tms[i] EXCEPT !.active = (tms[i].name \in Range(ca))]]

-----------------------------------------------------------------------------
(* The state after init_state() in a fresh process with no autosave file *)

Init ==
    /\ game_active = FALSE
    /\ teams = << >>
    /\ county_assignments = EmptyDict
    /\ battle_log = << >>
    /\ is_replaying = FALSE
    /\ trigger_replay = FALSE
    /\ autosave = NoFile
    /\ \E file \in AdjacencyFiles : adjacencies = load_map_resources(file)
    /\ kd_tie \in {"low", "high"}
    /\ op = "init"

-----------------------------------------------------------------------------
(* Handlers.  A run started by st.rerun() carries no widget event, so while *)
(* trigger_replay is set the only branch that runs is the replay.           *)

\* lines 282-287, then init_state() of the rerun
ClearCacheAndReset ==
    /\ game_active
    /\ ~trigger_replay
    /\ autosave' = NoFile
    /\ game_active' = FALSE
    /\ teams' = << >>
    /\ county_assignments' = EmptyDict
    /\ battle_log' = << >>
    /\ is_replaying' = FALSE
    /\ trigger_replay' = FALSE
    /\ op' = "reset"
    /\ UNCHANGED <<adjacencies, kd_tie>>

\* lines 297-307
UploadSaveFile ==
    /\ ~game_active
    /\ \E roster \in SavedRosters, history \in Histories :
         /\ teams' = roster
         /\ battle_log' = history
         /\ county_assignments' = assign_initial_territories(roster, kd_tie)
         /\ autosave' = << save_game_state(roster, assign_initial_territories(roster, kd_tie),
                                        history, TRUE) >>
    /\ trigger_replay' = TRUE
    /\ game_active' = TRUE
    /\ op' = "upload"
    /\ UNCHANGED <<adjacencies, is_replaying, kd_tie>>

\* lines 318-333
StartNewGame ==
    /\ ~game_active
    /\ \E csv \in CsvRosters :
         LET new_teams == [i \in DOMAIN csv |-> [csv[i] EXCEPT !.active = TRUE]]
             ca == assign_initial_territories(new_teams, kd_tie)
         IN  /\ teams' = new_teams
             /\ county_assignments' = ca
             /\ autosave' = << save_game_state(new_teams, ca, << >>, TRUE) >>
    /\ battle_log' = << >>
    /\ game_active' = TRUE
    /\ trigger_replay' = FALSE
    /\ is_replaying' = FALSE
    /\ op' = "start"
    /\ UNCHANGED <<adjacencies, kd_tie>>

\* lines 356-402
ReplayAllBattles ==
    /\ game_active
    /\ ~is_replaying \/ trigger_replay
    /\ LET cur_map == ReplayAll(teams, battle_log, kd_tie)
       IN  /\ county_assignments' = cur_map
           /\ autosave' = << save_game_state(teams, cur_map, battle_log, game_active) >>
    /\ trigger_replay' = FALSE
    /\ is_replaying' = FALSE
    /\ op' = "replay"
    /\ UNCHANGED <<game_active, teams, adjacencies, battle_log, kd_tie>>

\* ConfirmResult with the winner picked among all teams of the roster
ConfirmResult_AnyTeamWins ==
    /\ game_active
    /\ ~trigger_replay
    /\ has_active_battle(battle_log)
    /\ \E winner \in {teams[i].name : i \in DOMAIN teams} :
         LET log == [battle_log EXCEPT ![Len(battle_log)].winner = winner]
             ca  == ConfirmMap(county_assignments, active_battle(battle_log), winner)
             tms == ConfirmTeams(teams, ca)
         IN  /\ battle_log' = log
             /\ county_assignments' = ca
             /\ teams' = tms
             /\ autosave' = << save_game_state(tms, ca, log, game_active) >>
    /\ op' = "confirm"
    /\ UNCHANGED <<game_active, adjacencies, is_replaying, trigger_replay, kd_tie>>

\* lines 407-420
ConfirmResult ==
    /\ game_active
    /\ ~trigger_replay
    /\ has_active_battle(battle_log)
    /\ \E winner \in {active_battle(battle_log).att, active_battle(battle_log).def} :
         LET log == [battle_log EXCEPT ![Len(battle_log)].winner = winner]
             ca  == ConfirmMap(county_assignments, active_battle(battle_log), winner)
             tms == ConfirmTeams(teams, ca)
         IN  /\ battle_log' = log
             /\ county_assignments' = ca
             /\ teams' = tms
             /\ autosave' = << save_game_state(tms, ca, log, game_active) >>
    /\ op' = "confirm"
    /\ UNCHANGED <<game_active, adjacencies, is_replaying, trigger_replay, kd_tie>>

\* lines 422-443, some team can attack
SpinForNextBattle ==
    /\ game_active
    /\ ~trigger_replay
    /\ ~has_active_battle(battle_log)
    /\ ~is_replaying
    /\ LET viable == viable_attackers(teams, county_assignments, adjacencies)
       IN  /\ viable # << >>
           /\ \E a \in DOMAIN viable :
                LET final_attacker == viable[a].name
                    valid_neighbors == get_neighbors(final_attacker, county_assignments, adjacencies)
                IN  \E final_defender \in valid_neighbors :
                      LET log == Append(battle_log, [att |-> final_attacker,
                                                     def |-> final_defender,
                                                     winner |-> None])
                      IN  /\ battle_log' = log
                          /\ autosave' = << save_game_state(teams, county_assignments, log, game_active) >>
    /\ op' = "spin"
    /\ UNCHANGED <<game_active, teams, county_assignments, adjacencies,
                   is_replaying, trigger_replay, kd_tie>>

\* lines 422-424, no team can attack: the button does nothing
SpinNoViableAttacker ==
    /\ game_active
    /\ ~trigger_replay
    /\ ~has_active_battle(battle_log)
    /\ ~is_replaying
    /\ viable_attackers(teams, county_assignments, adjacencies) = << >>
    /\ op' = "spin_none"
    /\ UNCHANGED <<game_active, teams, county_assignments, adjacencies, battle_log,
                   is_replaying, trigger_replay, autosave, kd_tie>>

\* lines 16-27 and 92-107 in a new session (new browser session or restarted
\* server): session_state starts empty and is filled from the autosave file,
\* then from the defaults.  The file is on disk from the save_game_state() of
\* a handler on, so a session can also start between the run of the upload
\* branch and the rerun that replays (that rerun sleeps for seconds before it
\* stores its map); trigger_replay is not part of the file.
NewSession ==
    /\ IF autosave = NoFile
         THEN /\ game_active' = FALSE
              /\ teams' = << >>
              /\ county_assignments' = EmptyDict
              /\ battle_log' = << >>
         ELSE /\ game_active' = autosave[1].game_active
              /\ teams' = autosave[1].teams
              /\ county_assignments' = autosave[1].county_assignments
              /\ battle_log' = autosave[1].battle_log
    /\ is_replaying' = FALSE
    /\ trigger_replay' = FALSE
    /\ op' = "new_session"
    /\ UNCHANGED <<adjacencies, autosave, kd_tie>>

Next ==
    \/ ClearCacheAndReset
    \/ UploadSaveFile
    \/ StartNewGame
    \/ ReplayAllBattles
    \/ ConfirmResult
    \/ SpinForNextBattle
    \/ SpinNoViableAttacker
    \/ NewSession

Spec == Init /\ [][Next]_vars

-----------------------------------------------------------------------------
(* Vocabulary of the properties *)

\* a game is on and no rerun is waiting to replay
Stable == game_active /\ ~trigger_replay

TeamNames(tms) == {tms[i].name : i \in DOMAIN tms}

Owned(ca, name) == {f \in DOMAIN ca : ca[f] = name}

Owners(ca) == {ca[f] : f \in DOMAIN ca}

RECURSIVE SumOwned(_, _)
SumOwned(ca, names) ==
    IF names = {} THEN 0
    ELSE LET n == CHOOSE x \in names : TRUE
         IN  Cardinality(Owned(ca, n)) + SumOwned(ca, names \ {n})

LastBattle == battle_log[Len(battle_log)]

\* some county of team a lists a county of team d as adjacent
Borders(a, d, ca, adj) ==
    \E f \in DOMAIN ca \cap DOMAIN adj :
        /\ ca[f] = a
        /\ \E g \in Range(adj[f]) \cap DOMAIN ca : ca[g] = d

-----------------------------------------------------------------------------
(* C1 *)

\* C1 (replay convergence).  The map that the live path stores agrees with
\* the map that the replay loop computes from the same roster and log: it
\* does when a game starts, and a confirmed result or a spin keeps it so.
\* Hence any game played live from its start ends on the map its replay gives.
C1_ReplayConvergence ==
    [][ /\ StartNewGame =>
             county_assignments' = ReplayAll(teams', battle_log', kd_tie')
        /\ (ConfirmResult \/ SpinForNextBattle)
             /\ county_assignments = ReplayAll(teams, battle_log, kd_tie)
           => county_assignments' = ReplayAll(teams', battle_log', kd_tie')
      ]_vars

\* two battles that no uploaded history holds were proposed and confirmed,
\* territory has moved, and the replay agrees
C1_Witness ==
    /\ op = "confirm"
    /\ Len(completed_battles(battle_log)) >= 2
    /\ \A i \in DOMAIN battle_log : [battle_log[i] EXCEPT !.winner = None] \notin SavedBattles
    /\ county_assignments # assign_initial_territories(teams, kd_tie)
    /\ county_assignments = ReplayAll(teams, battle_log, kd_tie)

-----------------------------------------------------------------------------
(* C2 *)

\* C2 (completeness, exclusivity, conservation).  While a game is on, the
\* ownership map has exactly the counties of the table as its domain, every
\* owner is a team of the roster, and the teams' county counts add up to the
\* number of counties.
C2_TotalExclusiveConserved ==
    Stable =>
        /\ DOMAIN county_assignments = Fips
        /\ Owners(county_assignments) \subseteq TeamNames(teams)
        /\ SumOwned(county_assignments, TeamNames(teams)) = Cardinality(Fips)

-----------------------------------------------------------------------------
(* C3 *)

\* C3 (the log is the source of truth).  While a game is on, the ownership
\* map is the replay of the log's resolved battles on the initial partition
\* of the roster.
C3_MapIsReplayOfLog ==
    Stable => county_assignments = ReplayAll(teams, battle_log, kd_tie)

-----------------------------------------------------------------------------
(* C4 *)

\* C4 (active is derived).  While a game is on, a team's active flag is set
\* exactly when the team owns a county.
C4_ActiveIffOwner ==
    Stable =>
        \A i \in DOMAIN teams :
            teams[i].active <=> (Owned(county_assignments, teams[i].name) # {})

-----------------------------------------------------------------------------
(* C5 *)

\* the one of attacker and defender that is not the winner (none when a
\* battle names the same team twice)
LosersOf(b) == {b.att, b.def} \ {b.winner}

\* C5 (post-conquest).  Right after a result is confirmed, the loser of the
\* confirmed battle owns no county and no team of that name is flagged active.
C5_LoserOwnsNothing ==
    op = "confirm" =>
        \A l \in LosersOf(LastBattle) :
            /\ Owned(county_assignments, l) = {}
            /\ \A i \in DOMAIN teams : teams[i].name = l => ~teams[i].active

\* a result was just confirmed against a team of the roster that had won
\* an earlier battle
C5_Witness ==
    /\ op = "confirm"
    /\ Len(battle_log) >= 2
    /\ \E l \in LosersOf(LastBattle) :
         /\ l \in TeamNames(teams)
         /\ \E i \in 1..(Len(battle_log) - 1) : battle_log[i].winner = l
         /\ Owned(county_assignments, l) = {}
    /\ Owned(county_assignments, LastBattle.winner) # {}

-----------------------------------------------------------------------------
(* C6 *)

Pending(log) == {i \in DOMAIN log : log[i].winner = None}

\* C6 (single pending event), on states: the log holds at most one battle
\* without a winner, and only as its last element.
C6_PendingOnlyLast == Pending(battle_log) \subseteq {Len(battle_log)}

\* C6 (single pending event), on steps: while a battle is pending no handler
\* of the running game lengthens the log.
C6_NoProposalWhilePending ==
    [][ (Stable /\ Pending(battle_log) # {} /\ game_active')
            => Len(battle_log') <= Len(battle_log) ]_vars

-----------------------------------------------------------------------------
(* C7 *)

\* C7 (adjacency constraint, no self-battle).  The battle that a spin appends
\* is between two different teams, and on the map of that moment some county
\* of the attacker lists a county of the defender as adjacent.
C7_DefenderBordersAttacker ==
    [][ SpinForNextBattle =>
          LET b == battle_log'[Len(battle_log')]
          IN  /\ Len(battle_log') = Len(battle_log) + 1
              /\ b.att # b.def
              /\ Borders(b.att, b.def, county_assignments, adjacencies)
      ]_vars

\* a spin has just proposed a battle between two teams that own counties
C7_Witness ==
    /\ op = "spin"
    /\ LastBattle.winner = None
    /\ LastBattle.att # LastBattle.def
    /\ Borders(LastBattle.att, LastBattle.def, county_assignments, adjacencies)
    /\ Len(completed_battles(battle_log)) >= 1

-----------------------------------------------------------------------------
(* C8 *)

ActiveCount(tms) == Cardinality({i \in DOMAIN tms : tms[i].active})

\* C8 (termination detection).  While a game is on and exactly one team is
\* flagged active, no team is a viable attacker, so a spin appends nothing.
C8_OneActiveNoAttacker ==
    (Stable /\ ActiveCount(teams) = 1)
        => viable_attackers(teams, county_assignments, adjacencies) = << >>

-----------------------------------------------------------------------------
(* C9 *)

\* C9 (adjacency symmetry).  Whenever b is in the adjacency list of a, a is
\* in the adjacency list of b.
C9_AdjacencySymmetric ==
    \A a \in DOMAIN adjacencies : \A b \in Range(adjacencies[a]) :
        b \in DOMAIN adjacencies /\ a \in Range(adjacencies[b])

-----------------------------------------------------------------------------
(* C10 *)

\* the battles before the i-th resolved one left more than one owner
NotTerminalBefore(tms, battles, i, tie) ==
    Cardinality(Owners(ReplayLoop(assign_initial_territories(tms, tie),
                                  SubSeq(battles, 1, i - 1)))) > 1

WellFormed(tms, log, tie) ==
    LET battles == completed_battles(log)
    IN  \A i \in DOMAIN battles :
            /\ battles[i].winner \in {battles[i].att, battles[i].def}
            /\ {battles[i].att, battles[i].def} \subseteq TeamNames(tms)
            /\ NotTerminalBefore(tms, battles, i, tie)

\* C10 (malformed log rejection).  A replay that runs to its end and stores
\* a map has replayed a well-formed log, and every owner on the stored map
\* is a team of the roster.
C10_ReplayRejectsMalformedLog ==
    op = "replay" =>
        /\ WellFormed(teams, battle_log, kd_tie)
        /\ Owners(county_assignments) \subseteq TeamNames(teams)

-----------------------------------------------------------------------------
(* C11 *)

\* C11 (degenerate roster rejection).  No game is on with fewer than two
\* teams: a roster of none or one is refused, with no map and no active game.
C11_NoGameBelowTwoTeams == game_active => Len(teams) >= 2

-----------------------------------------------------------------------------
(* C12 *)

\* C12 (atomic resolution, valid winner only).  A result is confirmed only
\* when the last battle of the log is pending, and for its attacker or its
\* defender; the step fills in that winner and changes nothing else of the
\* log, leaves the one that lost without a county, and gives the winner
\* every county the loser had.
C12_ResolutionAcceptedAndWhole ==
    [][ op' = "confirm" =>
          /\ Stable
          /\ has_active_battle(battle_log)
          /\ LET b == battle_log[Len(battle_log)]
                 w == battle_log'[Len(battle_log')].winner
             IN  /\ w \in {b.att, b.def}
                 /\ battle_log' = [battle_log EXCEPT ![Len(battle_log)].winner = w]
                 /\ \A l \in {b.att, b.def} \ {w} :
                       /\ Owned(county_assignments', l) = {}
                       /\ Owned(county_assignments, l) \subseteq Owned(county_assignments', w)
      ]_vars

\* a result was just confirmed for the defender, and the attacker, a team
\* of the roster, is left without a county
C12_Witness ==
    /\ op = "confirm"
    /\ LastBattle.winner = LastBattle.def
    /\ LastBattle.att # LastBattle.def
    /\ LastBattle.att \in TeamNames(teams)
    /\ Owned(county_assignments, LastBattle.att) = {}
    /\ Cardinality(Owned(county_assignments, LastBattle.def)) >= 2

-----------------------------------------------------------------------------
(* C13 *)

\* C13 (append-only log).  While a game goes on, every battle of the log
\* stays at its place with its attacker and defender; a resolved battle keeps
\* its winner, and only the last battle, when pending, may get one.
C13_LogAppendOnly ==
    [][ (game_active /\ game_active') =>
          \A i \in DOMAIN battle_log :
              /\ i \in DOMAIN battle_log'
              /\ battle_log'[i].att = battle_log[i].att
              /\ battle_log'[i].def = battle_log[i].def
              /\ battle_log[i].winner # None => battle_log'[i] = battle_log[i]
              /\ battle_log'[i] # battle_log[i] => i = Len(battle_log)
      ]_vars

\* a battle was just proposed after two battles that were resolved
C13_Witness ==
    /\ op = "spin"
    /\ Len(battle_log) >= 3
    /\ LastBattle.winner = None
    /\ \A i \in 1..(Len(battle_log) - 1) : battle_log[i].winner # None

-----------------------------------------------------------------------------
(* C14 *)

\* the map that confirming the resolved battles of a log one after the other
\* gives, from the map ca
RECURSIVE LiveLoop(_, _, _)
LiveLoop(ca, log, i) ==
    IF i > Len(log) THEN ca
    ELSE LiveLoop(IF ~Truthy(log[i].winner) THEN ca
                  ELSE ConfirmMap(ca, log[i], log[i].winner), log, i + 1)

LiveAll(tms, log, tie) == LiveLoop(assign_initial_territories(tms, tie), log, 1)

-----------------------------------------------------------------------------
(* C16 *)

\* C16 (empty-log replay).  A replay of a log with no resolved battle, the
\* empty log included, makes exactly one snapshot, the initial partition, and
\* leaves the initial partition as the ownership map.
C16_EmptyLogReplay ==
    (op = "replay" /\ \A i \in DOMAIN battle_log : battle_log[i].winner = None)
        => /\ county_assignments = assign_initial_territories(teams, kd_tie)
           /\ ReplaySnapshots(teams, battle_log, kd_tie)
                 = << assign_initial_territories(teams, kd_tie) >>

\* a replay has just run on a log that holds pending battles only
C16_Witness ==
    /\ op = "replay"
    /\ battle_log # << >>
    /\ \A i \in DOMAIN battle_log : battle_log[i].winner = None
    /\ Len(teams) >= 2
    /\ county_assignments = assign_initial_territories(teams, kd_tie)

-----------------------------------------------------------------------------
(* C15 *)

\* C15 (abandoning a proposal).  From a state with a pending battle, the
\* pending battle can be discarded in one step that keeps the game going and
\* leaves the ownership map and the rest of the battle log as they are.
C15_PendingCanBeAbandoned ==
    (Stable /\ has_active_battle(battle_log)) =>
        ENABLED ( /\ Next
                  /\ game_active'
                  /\ battle_log' = SubSeq(battle_log, 1, Len(battle_log) - 1)
                  /\ county_assignments' = county_assignments )

-----------------------------------------------------------------------------
(* C17 *)

\* C17 (nearest-agent partition, lowest index on a tie).  The initial
\* partition gives every county to a team whose site is at minimal distance
\* from it, and among teams at exactly the same distance to the one that
\* comes first in the roster.
C17_NearestLowestIndex ==
    (op \in {"start", "upload"} /\ teams # << >>) =>
        \A k \in DOMAIN counties_df :
            \E i \in DOMAIN teams :
                /\ county_assignments[counties_df[k].fips] = teams[i].name
                /\ \A j \in DOMAIN teams :
                      /\ Dist2(teams[i], counties_df[k]) <= Dist2(teams[j], counties_df[k])
                      /\ Dist2(teams[i], counties_df[k]) = Dist2(teams[j], counties_df[k])
                            => i <= j

\* the half of C17 that does not depend on the tie: every county goes to a
\* team at minimal distance
C17_NearestOnly ==
    (op \in {"start", "upload"} /\ teams # << >>) =>
        \A k \in DOMAIN counties_df :
            \E i \in DOMAIN teams :
                /\ county_assignments[counties_df[k].fips] = teams[i].name
                /\ \A j \in DOMAIN teams :
                      Dist2(teams[i], counties_df[k]) <= Dist2(teams[j], counties_df[k])

-----------------------------------------------------------------------------
(* C18 *)

\* C18 (resolution effect and frame).  Confirming the pending battle for
\* winner w gives a map over the same counties in which every county of the
\* one that lost belongs to w and every other county keeps its owner; the
\* counties of the teams that did not take part are the same as before.
C18_ResolutionEffectAndFrame ==
    [][ op' = "confirm" =>
          LET b == battle_log[Len(battle_log)]
              w == battle_log'[Len(battle_log')].winner
              L == {b.att, b.def} \ {w}
          IN  /\ DOMAIN county_assignments' = DOMAIN county_assignments
              /\ \A f \in DOMAIN county_assignments :
                    county_assignments'[f] =
                        IF county_assignments[f] \in L THEN w
                        ELSE county_assignments[f]
              /\ \A n \in Names \ {b.att, b.def} :
                    Owned(county_assignments', n) = Owned(county_assignments, n)
      ]_vars

\* a battle between two teams of the roster was just confirmed and a third
\* team still owns counties
C18_Witness ==
    /\ op = "confirm"
    /\ LastBattle.att # LastBattle.def
    /\ {LastBattle.att, LastBattle.def} \subseteq TeamNames(teams)
    /\ \E l \in LosersOf(LastBattle) : Owned(county_assignments, l) = {}
    /\ Cardinality(Owned(county_assignments, LastBattle.winner)) >= 2
    /\ \E n \in Names \ {LastBattle.att, LastBattle.def} :
          Owned(county_assignments, n) # {}

-----------------------------------------------------------------------------
(* C19 *)

\* C19 (stable state while pending).  While a battle is pending and the game
\* goes on, no step other than its confirmation changes the ownership map.
C19_MapStableWhilePending ==
    [][ ( /\ Stable
          /\ has_active_battle(battle_log)
          /\ game_active'
          /\ op' # "confirm" )
        => county_assignments' = county_assignments ]_vars

\* C19, its consequence: when a result is confirmed, the attacker and the
\* defender both own counties and the defender borders the attacker.
C19_AdjacentAtResolution ==
    [][ op' = "confirm" =>
          LET b == battle_log[Len(battle_log)]
          IN  /\ Owned(county_assignments, b.att) # {}
              /\ Owned(county_assignments, b.def) # {}
              /\ Borders(b.att, b.def, county_assignments, adjacencies)
      ]_vars

-----------------------------------------------------------------------------
(* C20 *)

\* C20 (progress).  Every confirmed result lowers the number of teams that
\* own a county by exactly one.
C20_ResolutionRemovesOneOwner ==
    [][ op' = "confirm" =>
          Cardinality(Owners(county_assignments'))
              = Cardinality(Owners(county_assignments)) - 1 ]_vars

\* C20 (bounded game length).  A log never holds more resolved battles than
\* the roster has teams, less one.
C20_AtMostTeamsLessOneResolutions ==
    (Stable /\ teams # << >>) =>
        Len(completed_battles(battle_log)) <= Len(teams) - 1

-----------------------------------------------------------------------------
(* C21 *)

\* a team of the roster that lost a resolved battle of the log and owns no
\* county
Eliminated(n) ==
    /\ Stable
    /\ n \in TeamNames(teams)
    /\ Owned(county_assignments, n) = {}
    /\ \E i \in DOMAIN battle_log :
          /\ battle_log[i].winner # None
          /\ n \in LosersOf(battle_log[i])

\* C21 (elimination is permanent).  Once a team owns no county after a
\* resolution, then after every later step of the same game it owns no
\* county, its active flag is off, and a battle that the step proposes names
\* it neither as attacker nor as defender.
C21_EliminationPermanent ==
    [][ \A n \in Names :
          (Eliminated(n) /\ game_active') =>
              /\ Owned(county_assignments', n) = {}
              /\ \A i \in DOMAIN teams' : teams'[i].name = n => ~teams'[i].active
              /\ op' = "spin" =>
                    n \notin {battle_log'[Len(battle_log')].att,
                              battle_log'[Len(battle_log')].def}
      ]_vars

\* C21, the ownership part alone: an eliminated team owns no county after
\* any later step of the game
C21_EliminatedOwnsNothingLater ==
    [][ \A n \in Names :
          (Eliminated(n) /\ game_active') => Owned(county_assignments', n) = {}
      ]_vars

\* C21, the proposal part alone: no spin names an eliminated team
C21_EliminatedNeverProposed ==
    [][ \A n \in Names :
          (Eliminated(n) /\ op' = "spin") =>
              n \notin {battle_log'[Len(battle_log')].att,
                        battle_log'[Len(battle_log')].def}
      ]_vars

=============================================================================
